---- MODULE Spec2Model ----
(***************************************************************************)
(* Model of src/src/MulterAzureStorage.ts: the multer storage engine that  *)
(* stores uploads in Azure Blob Storage.  The adapter's constructor is an  *)
(* operator over the options and the process environment; every           *)
(* _handleFile / _removeFile call is a record that moves through the       *)
(* awaits of _handleFileAsync / _removeFileAsync, one action per await.    *)
(* The blob service is the set of containers and the map of blobs the     *)
(* SDK calls read and write.                                               *)
(***************************************************************************)
EXTENDS Integers, Sequences, FiniteSets, TLC

VARIABLES
    options,     \* the IMASOptions passed to the constructor
    env,         \* process.env: the three AZURE_STORAGE_* variables
    adapter,     \* the MulterAzureStorage instance (or the constructor's throw)
    calls,       \* the _handleFile / _removeFile calls made so far
    containers,  \* blob service: names of the containers that exist
    blobs,       \* blob service: <<container, blobName>> -> stored blob
    etags,       \* blob service: number of blob versions written so far
    clock,       \* Date.now(), in milliseconds
    uuids        \* number of identifiers v4() has generated

vars == <<options, env, adapter, calls, containers, blobs, etags, clock, uuids>>

----------------------------------------------------------------------------
(* Bounds *)

MaxCalls == 1      \* calls of _handleFile / _removeFile in one behaviour
MaxConcurrentCalls == 2  \* the same, where the calls' interleaving is the question
MaxClock == 1      \* Date.now() ranges over 0..MaxClock
MaxMinutes == 2    \* options.urlExpirationTime ranges over -1..MaxMinutes

----------------------------------------------------------------------------
(* JavaScript values *)

Undefined == "undefined"

\* a string is truthy unless it is missing or empty
Truthy(s) == s # Undefined /\ s # ""

\* a || b on optional strings
OrElse(a, b) == IF Truthy(a) THEN a ELSE b

\* number | false | undefined, as options.urlExpirationTime
NoNumber == [t |-> "undefined", n |-> 0]
FalseValue == [t |-> "false", n |-> 0]
NullNumber == [t |-> "null", n |-> 0]
Num(k) == [t |-> "number", n |-> k]

Digits == <<"0", "1", "2", "3", "4", "5", "6", "7", "8", "9">>

\* `${n}` for a small natural number
NumToString(n) == IF n < 10 THEN <<Digits[n + 1]>>
                  ELSE <<Digits[(n \div 10) + 1], Digits[(n % 10) + 1]>>

----------------------------------------------------------------------------
(* Types of the options *)

\* MASContainerAccessLevel
PublicContainer == "container"
PublicBlob == "blob"
Private == "private"

DEFAULT_CONTAINER_ACCESS_LEVEL == Private
DEFAULT_URL_EXPIRATION_TIME == 60

\* MASContentSettings: every field optional
NoContentSettings ==
    [cacheControl |-> Undefined, contentType |-> Undefined, contentMD5 |-> Undefined,
     contentEncoding |-> Undefined, contentLanguage |-> Undefined,
     contentDisposition |-> Undefined]

\* MASMetadata is a set of <<key, value>> pairs; an absent metadata object is
\* told from an empty one by `present`
NoMetadata == [present |-> FALSE, map |-> {}]
Metadata(m) == [present |-> TRUE, map |-> m]

\* An option that is missing, a static value, or a MASResolverFunction
Missing(v) == [kind |-> "undefined", value |-> v]
Static(v) == [kind |-> "static", value |-> v]
Resolver(v) == [kind |-> "resolver", value |-> v]

\* promisifyValue / promisifyOption: a static value is lifted into a resolver
\* that always resolves to it and never rejects; a function is kept as it is
promisifyOption(opt) ==
    IF opt.kind = "resolver" THEN [lifted |-> FALSE, configured |-> TRUE, value |-> opt.value]
    ELSE [lifted |-> TRUE, configured |-> TRUE, value |-> opt.value]

\* a resolver field of the adapter that is null
NullResolver(v) == [lifted |-> FALSE, configured |-> FALSE, value |-> v]

----------------------------------------------------------------------------
(* constructor(options) *)

\* lines 90-99: the credentials, from the options or the environment
ConnectionString(o, e) == OrElse(o.connectionString, e.AZURE_STORAGE_CONNECTION_STRING)
AccessKey(o, e) == OrElse(o.accessKey, e.AZURE_STORAGE_ACCESS_KEY)
AccountName(o, e) == OrElse(o.accountName, e.AZURE_STORAGE_ACCOUNT)

ConnectionAnyOfPair(o, e) ==
    IF Truthy(ConnectionString(o, e)) THEN "connectionString"
    ELSE IF Truthy(AccessKey(o, e)) \/ Truthy(AccountName(o, e)) THEN "sharedKey"
    ELSE "null"

Connection(o, e) ==
    IF Truthy(ConnectionString(o, e)) THEN "connectionString"
    ELSE IF Truthy(AccessKey(o, e)) /\ Truthy(AccountName(o, e)) THEN "sharedKey"
    ELSE "null"

\* line 103: !options.containerName
ContainerNameMissing(o) ==
    \/ o.containerName.kind = "undefined"
    \/ o.containerName.kind = "static" /\ ~Truthy(o.containerName.value)

\* lines 116-123
UrlExpirationTimeStrictlyNegative(o) ==
    IF o.urlExpirationTime.t = "false" THEN NullNumber
    ELSE IF o.urlExpirationTime.t = "undefined" \/ o.urlExpirationTime.n < 0
         THEN Num(DEFAULT_URL_EXPIRATION_TIME)
    ELSE o.urlExpirationTime

UrlExpirationTime(o) ==
    IF o.urlExpirationTime.t = "false" THEN NullNumber
    ELSE IF o.urlExpirationTime.t = "undefined" \/ o.urlExpirationTime.n <= 0
         THEN Num(DEFAULT_URL_EXPIRATION_TIME)
    ELSE o.urlExpirationTime

\* lines 126-132: the BlobServiceClient; with a shared key its URL is built
\* from options.accountName, not from the resolved account name
BlobServiceClient(o, e) ==
    IF Connection(o, e) = "connectionString"
    THEN [via |-> "fromConnectionString", account |-> ConnectionString(o, e)]
    ELSE [via |-> "sharedKey", account |-> o.accountName]

NoError == "null"
MissingCredentials == "Missing required parameter: Either the connection string or account name and access key must be provided."
MissingContainerName == "Missing required parameter: Azure container name."

\* the error the constructor throws, or NoError
ConstructorError(o, e) ==
    IF Connection(o, e) = "null" THEN MissingCredentials
    ELSE IF ContainerNameMissing(o) THEN MissingContainerName
    ELSE NoError

\* the instance the constructor builds when it does not throw
Constructor(o, e) ==
    [state |-> IF ConstructorError(o, e) = NoError THEN "constructed" ELSE "threw",
     error |-> ConstructorError(o, e),
     _blobServiceClient |-> BlobServiceClient(o, e),
     _containerName |-> promisifyOption(o.containerName),
     _containerAccessLevel |->
        IF o.containerAccessLevel = Undefined THEN DEFAULT_CONTAINER_ACCESS_LEVEL
        ELSE o.containerAccessLevel,
     _metadata |-> IF o.metadata.kind = "undefined" THEN NullResolver({})
                   ELSE promisifyOption(o.metadata),
     _contentSettings |-> IF o.contentSettings.kind = "undefined"
                          THEN NullResolver(NoContentSettings)
                          ELSE promisifyOption(o.contentSettings),
     _blobName |-> IF o.blobName = Undefined THEN "generateBlobName" ELSE o.blobName,
     _urlExpirationTime |-> UrlExpirationTime(o),
     _autoCreateContainer |-> IF o.autoCreateContainer = Undefined THEN TRUE
                              ELSE o.autoCreateContainer = "true"]

NotConstructed ==
    [Constructor(
        [connectionString |-> Undefined, accessKey |-> Undefined, accountName |-> Undefined,
         urlExpirationTime |-> NoNumber, blobName |-> Undefined,
         containerName |-> Missing(Undefined), autoCreateContainer |-> Undefined,
         metadata |-> Missing({}), contentSettings |-> Missing(NoContentSettings),
         containerAccessLevel |-> Undefined],
        [AZURE_STORAGE_CONNECTION_STRING |-> Undefined, AZURE_STORAGE_ACCESS_KEY |-> Undefined,
         AZURE_STORAGE_ACCOUNT |-> Undefined])
     EXCEPT !.state = "new", !.error = NoError]

----------------------------------------------------------------------------
(* Files and resolvers *)

\* Express.Multer.File: the fields the adapter and the resolvers read
Files ==
    { [fieldname |-> "avatar", originalname |-> <<"a", ".", "p", "n", "g">>,
       mimetype |-> "image/png", size |-> 1],
      [fieldname |-> "docs", originalname |-> <<"n", "o", "t", "e", "s">>,
       mimetype |-> "text/plain", size |-> 2] }

\* the positions of "." in a name
DotPositions(name) == {k \in 1..Len(name) : name[k] = "."}

Max(S) == CHOOSE x \in S : \A y \in S : y <= x

\* path.extname: from the last "." to the end; empty when there is no "." or
\* the only "." is the first character
extname(name) ==
    IF DotPositions(name) = {} \/ Max(DotPositions(name)) = 1 THEN <<>>
    ELSE SubSeq(name, Max(DotPositions(name)), Len(name))

\* uuid.v4: the k-th identifier generated; no two are the same
v4(k) == <<"u">> \o NumToString(k)

\* generateBlobName: `${Date.now()}-${v4()}${extname(file.originalname)}`
generateBlobName(now, uuid, file) ==
    NumToString(now) \o <<"-">> \o uuid \o extname(file.originalname)

\* The resolver functions a caller configures are pure functions of the file
ContainerNameResolvers == {"byFieldname"}
BlobNameResolvers == {"byOriginalname"}

ApplyContainerName(fn, file) == file.fieldname
ApplyBlobName(fn, file) == file.originalname
ApplyMetadata(fn, file) == {<<"field", file.fieldname>>}
ApplyContentSettings(fn, file) ==
    [NoContentSettings EXCEPT !.contentType = file.mimetype, !.cacheControl = "no-cache"]

StaticContentSettings ==
    [NoContentSettings EXCEPT !.contentDisposition = "attachment"]

\* whether awaiting the resolver can reject: a lifted static value never does
CanReject(resolver) == resolver.configured /\ ~resolver.lifted

----------------------------------------------------------------------------
(* The blob service, as the SDK calls see it *)

BlobKey(container, blob) == <<container, blob>>

Exists(key) == key \in DOMAIN blobs

\* ContainerClient.createIfNotExists
createIfNotExists(container) ==
    [containers |-> containers \cup {container}, error |-> NoError]

\* BlockBlobClient.uploadStream: creates the blob or overwrites it
uploadStream(key, blob) ==
    [k \in DOMAIN blobs \cup {key} |-> IF k = key THEN blob ELSE blobs[k]]

\* BlobClient.delete: fails when the blob does not exist
DeleteFailsIfMissing(key) ==
    [blobs |-> [k \in DOMAIN blobs \ {key} |-> blobs[k]],
     error |-> IF Exists(key) THEN NoError ELSE "BlobNotFound"]

\* BlobClient.deleteIfExists
deleteIfExists(key) ==
    [blobs |-> [k \in DOMAIN blobs \ {key} |-> blobs[k]], error |-> NoError]

NoProperties ==
    [etag |-> 0, metadata |-> NoMetadata, blobType |-> Undefined, contentLength |-> 0]

\* BlobClient.getProperties
getProperties(key) ==
    [etag |-> blobs[key].etag, metadata |-> blobs[key].metadata,
     blobType |-> blobs[key].blobType, contentLength |-> blobs[key].contentLength]

----------------------------------------------------------------------------
(* One _handleFile / _removeFile call *)

\* lines 159-166
BlobHTTPHeaders(contentSettings) ==
    [blobCacheControl |-> contentSettings.cacheControl,
     blobContentType |-> contentSettings.contentType,
     blobContentMD5 |-> contentSettings.contentMD5,
     blobContentEncoding |-> contentSettings.contentEncoding,
     blobContentLanguage |-> contentSettings.contentLanguage,
     blobContentDisposition |-> contentSettings.contentDisposition]

NoSasOptions == [expiresOn |-> NoNumber, permissions |-> Undefined, now |-> 0]
NoUploadOptions ==
    [metadata |-> NoMetadata, blobHTTPHeaders |-> BlobHTTPHeaders(NoContentSettings)]

NewCall(kind, file) ==
    [kind |-> kind, file |-> file, pc |-> "containerName",
     follows |-> {j \in 1..Len(calls) : calls[j].pc = "done"},  \* the calls over by then
     containerName |-> Undefined, blobName |-> <<>>,
     contentSettings |-> NoContentSettings, metadata |-> NoMetadata,
     requests |-> <<>>,            \* the operations awaited so far, in order
     access |-> Undefined,         \* createIfNotExists({access})
     existed |-> FALSE,            \* the container existed at createIfNotExists
     found |-> FALSE,              \* the blob existed at deleteIfExists
     changed |-> FALSE,            \* deleteIfExists changed the stored blobs
     uploadOptions |-> NoUploadOptions,
     uploaded |-> 0,               \* the etag of the blob this call wrote
     blobProperties |-> NoProperties,
     sasOptions |-> NoSasOptions,
     failure |-> NoError,          \* the error an awaited operation failed with
     reason |-> NoError,           \* the rejection reason of the promise chain
     result |-> <<>>,              \* the value _handleFileAsync resolved to
     cb |-> <<>>]                  \* the invocations of the completion callback

Running(i, pc) == i \in 1..Len(calls) /\ calls[i].pc = pc

\* an await that throws: the async function rejects with that error and the
\* .then handler is skipped
RejectedButSwallowed(c, op, err) ==
    [c EXCEPT !.pc = "fulfilled", !.failure = err, !.requests = Append(@, op)]

Rejected(c, op, err) ==
    [c EXCEPT !.pc = "rejected", !.failure = err, !.reason = err,
              !.requests = Append(@, op)]

\* an await that returns: the function goes on to its next await
Awaited(c, op, next) == [c EXCEPT !.pc = next, !.requests = Append(@, op)]

Resolve(resolver, applied) == IF resolver.lifted THEN resolver.value ELSE applied

\* lines 150-153
DefaultContentSettingsWithCache(file) ==
    [NoContentSettings EXCEPT !.contentType = file.mimetype,
                              !.contentDisposition = "inline",
                              !.cacheControl = "no-cache"]

DefaultContentSettings(file) ==
    [NoContentSettings EXCEPT !.contentType = file.mimetype,
                              !.contentDisposition = "inline"]

\* line 158: metadata || undefined, where metadata is null when no resolver
\* is configured
MetadataOrEmptyMap(metadata) == IF metadata.present THEN metadata ELSE Metadata({})

MetadataOrUndefined(metadata) == IF metadata.present THEN metadata ELSE NoMetadata

\* line 197
PublicAccessLevelVerbatim(a) == a._containerAccessLevel

PublicAccessLevel(a) ==
    IF a._containerAccessLevel = Private THEN Undefined ELSE a._containerAccessLevel

\* line 171
ExpiresOn(a, now) ==
    IF a._urlExpirationTime.t = "number" /\ a._urlExpirationTime.n # 0
    THEN Num(now + a._urlExpirationTime.n * 60 * 1000)
    ELSE NoNumber

\* lines 174-183
OutFile(c, sasUrl) ==
    [file |-> c.file, url |-> sasUrl, etag |-> c.blobProperties.etag,
     metadata |-> c.blobProperties.metadata, containerName |-> c.containerName,
     blobName |-> c.blobName, blobType |-> c.blobProperties.blobType,
     blobSize |-> c.blobProperties.contentLength]

----------------------------------------------------------------------------
(* The inputs: constructor options and environment *)

OptionalStrings(v) == {Undefined, "", v}

Environments ==
    [AZURE_STORAGE_CONNECTION_STRING : OptionalStrings("UseDevelopmentStorage=true"),
     AZURE_STORAGE_ACCESS_KEY : OptionalStrings("key"),
     AZURE_STORAGE_ACCOUNT : OptionalStrings("account")]

NoEnvironment ==
    [AZURE_STORAGE_CONNECTION_STRING |-> Undefined, AZURE_STORAGE_ACCESS_KEY |-> Undefined,
     AZURE_STORAGE_ACCOUNT |-> Undefined]

ContainerNameOptions ==
    {Missing(Undefined), Static(""), Static("uploads")}
        \cup {Resolver(fn) : fn \in ContainerNameResolvers}

UrlExpirationTimes == {NoNumber, FalseValue} \cup {Num(k) : k \in -1..MaxMinutes}

\* every way of supplying the credentials and the container name, the other
\* options left out
CredentialOptions ==
    [connectionString : OptionalStrings("UseDevelopmentStorage=true"),
     accessKey : OptionalStrings("key"),
     accountName : OptionalStrings("account"),
     urlExpirationTime : {NoNumber},
     blobName : {Undefined},
     containerName : ContainerNameOptions,
     autoCreateContainer : {Undefined},
     metadata : {Missing({})},
     contentSettings : {Missing(NoContentSettings)},
     containerAccessLevel : {Undefined}]

\* The families of options the calls are checked under.  Each has the
\* connection string of the storage emulator and varies the options named.
OptionsWith(expirations, blobNames, containerNames, autoCreates, metadatas, settings, levels) ==
    [connectionString : {"UseDevelopmentStorage=true"},
     accessKey : {Undefined},
     accountName : {Undefined},
     urlExpirationTime : expirations,
     blobName : blobNames,
     containerName : containerNames,
     autoCreateContainer : autoCreates,
     metadata : metadatas,
     contentSettings : settings,
     containerAccessLevel : levels]

ContainerNameSources == {Static("uploads")} \cup {Resolver(fn) : fn \in ContainerNameResolvers}
MetadataSources == {Missing({}), Static({<<"app", "demo">>}), Resolver("byFile")}
ContentSettingsSources ==
    {Missing(NoContentSettings), Static(StaticContentSettings), Resolver("byFile")}

\* nothing but the required options, and every resolver configured; each with
\* the default blob name and with a blob-name resolver
Options ==
    OptionsWith({NoNumber}, {Undefined} \cup BlobNameResolvers, {Static("uploads")},
                {Undefined}, {Missing({})}, {Missing(NoContentSettings)}, {Undefined})
    \cup OptionsWith({NoNumber}, {Undefined} \cup BlobNameResolvers,
                     {Resolver(fn) : fn \in ContainerNameResolvers},
                     {Undefined}, {Resolver("byFile")}, {Resolver("byFile")}, {Undefined})

\* every source of the container name, the metadata and the content settings
ResolverOptions ==
    OptionsWith({NoNumber}, BlobNameResolvers, ContainerNameSources,
                {Undefined}, MetadataSources, ContentSettingsSources, {Undefined})

\* every urlExpirationTime
ExpirationOptions ==
    OptionsWith(UrlExpirationTimes, BlobNameResolvers, {Static("uploads")},
                {Undefined}, {Missing({})}, {Missing(NoContentSettings)}, {Undefined})

\* every autoCreateContainer and containerAccessLevel
ContainerOptions ==
    OptionsWith({NoNumber}, BlobNameResolvers, {Static("uploads")},
                {Undefined, "true", "false"}, {Missing({})}, {Missing(NoContentSettings)},
                {Undefined, Private, PublicBlob, PublicContainer})

\* every source of the container name, the other options left out
RemoveOptions ==
    OptionsWith({NoNumber}, BlobNameResolvers, ContainerNameSources,
                {Undefined, "false"}, {Missing({})}, {Missing(NoContentSettings)}, {Undefined})

\* a blob written before the adapter was constructed
EarlierBlob ==
    [etag |-> 1, metadata |-> NoMetadata,
     blobHTTPHeaders |-> BlobHTTPHeaders(NoContentSettings),
     blobType |-> "BlockBlob", contentLength |-> 1]

EarlierKey == <<"uploads", <<"a", ".", "p", "n", "g">>>>

\* the blob service with nothing in it, and with one container and one blob
EmptyService == [containers |-> {}, blobs |-> <<>>, etags |-> 0]
UsedService ==
    [containers |-> {"uploads"}, blobs |-> [k \in {EarlierKey} |-> EarlierBlob], etags |-> 1]

----------------------------------------------------------------------------
(* Actions *)

\* before the constructor runs
Start(optionSet, environmentSet, serviceSet) ==
    /\ options \in optionSet
    /\ env \in environmentSet
    /\ adapter = NotConstructed
    /\ calls = <<>>
    /\ \E service \in serviceSet :
        /\ containers = service.containers
        /\ blobs = service.blobs
        /\ etags = service.etags
    /\ clock = 0
    /\ uuids = 0

Init == Start(Options, {NoEnvironment}, {EmptyService})

\* new MulterAzureStorage(options)
Construct ==
    /\ adapter.state = "new"
    /\ adapter' = Constructor(options, env)
    /\ UNCHANGED <<options, env, calls, containers, blobs, etags, clock, uuids>>

\* multer calls _handleFile(req, file, cb)
HandleFile(file, max) ==
    /\ adapter.state = "constructed"
    /\ Len(calls) < max
    /\ calls' = Append(calls, NewCall("store", file))
    /\ UNCHANGED <<options, env, adapter, containers, blobs, etags, clock, uuids>>

\* multer calls _removeFile(req, file, cb)
RemoveFile(file, max) ==
    /\ adapter.state = "constructed"
    /\ Len(calls) < max
    /\ calls' = Append(calls, NewCall("remove", file))
    /\ UNCHANGED <<options, env, adapter, containers, blobs, etags, clock, uuids>>

\* lines 148, 187: await this._containerName(req, file)
ResolveContainerName(i, fail) ==
    /\ Running(i, "containerName")
    /\ fail => CanReject(adapter._containerName)
    /\ LET c == calls[i]
           name == Resolve(adapter._containerName,
                           ApplyContainerName(adapter._containerName.value, c.file))
       IN calls' = [calls EXCEPT ![i] =
            IF fail THEN Rejected(c, "containerName", "containerName rejected")
            ELSE [Awaited(c, "containerName", "blobName") EXCEPT !.containerName = name]]
    /\ UNCHANGED <<options, env, adapter, containers, blobs, etags, clock, uuids>>

\* lines 149, 188: await this._blobName(req, file); generateBlobName reads
\* Date.now(), which has moved on to `now`, and generates a uuid
ResolveBlobName(i, now, fail) ==
    /\ Running(i, "blobName")
    /\ fail => adapter._blobName # "generateBlobName"
    /\ now >= clock
    /\ adapter._blobName # "generateBlobName" => now = clock
    /\ LET c == calls[i]
           next == IF c.kind = "store" THEN "contentSettings" ELSE "getContainerClient"
       IN IF adapter._blobName = "generateBlobName"
          THEN /\ calls' = [calls EXCEPT ![i] =
                    [Awaited(c, "blobName", next) EXCEPT
                       !.blobName = generateBlobName(now, v4(uuids + 1), c.file)]]
               /\ uuids' = uuids + 1
          ELSE /\ calls' = [calls EXCEPT ![i] =
                    IF fail THEN Rejected(c, "blobName", "blobName rejected")
                    ELSE [Awaited(c, "blobName", next) EXCEPT
                            !.blobName = ApplyBlobName(adapter._blobName, c.file)]]
               /\ UNCHANGED uuids
    /\ clock' = now
    /\ UNCHANGED <<options, env, adapter, containers, blobs, etags>>

\* lines 150-153: the configured content settings, or the default ones
ResolveContentSettings(i, fail) ==
    /\ Running(i, "contentSettings")
    /\ fail => CanReject(adapter._contentSettings)
    /\ LET c == calls[i]
           r == adapter._contentSettings
       IN calls' = [calls EXCEPT ![i] =
            IF fail THEN Rejected(c, "contentSettings", "contentSettings rejected")
            ELSE IF r.configured
            THEN [Awaited(c, "contentSettings", "metadata") EXCEPT
                    !.contentSettings = Resolve(r, ApplyContentSettings(r.value, c.file))]
            ELSE [c EXCEPT !.pc = "metadata",
                           !.contentSettings = DefaultContentSettings(c.file)]]
    /\ UNCHANGED <<options, env, adapter, containers, blobs, etags, clock, uuids>>

\* line 154: this._metadata && await this._metadata(req, file)
ResolveMetadata(i, fail) ==
    /\ Running(i, "metadata")
    /\ fail => CanReject(adapter._metadata)
    /\ LET c == calls[i]
           r == adapter._metadata
       IN calls' = [calls EXCEPT ![i] =
            IF fail THEN Rejected(c, "metadata", "metadata rejected")
            ELSE IF r.configured
            THEN [Awaited(c, "metadata", "getContainerClient") EXCEPT
                    !.metadata = Metadata(Resolve(r, ApplyMetadata(r.value, c.file)))]
            ELSE [c EXCEPT !.pc = "getContainerClient", !.metadata = NoMetadata]]
    /\ UNCHANGED <<options, env, adapter, containers, blobs, etags, clock, uuids>>

\* lines 155, 189, 194-201: _getContainerClient(containerName)
GetContainerClient(i, fail) ==
    /\ Running(i, "getContainerClient")
    /\ fail => adapter._autoCreateContainer
    /\ LET c == calls[i]
           next == IF c.kind = "store" THEN "uploadStream" ELSE "deleteIfExists"
           created == createIfNotExists(c.containerName)
           error == IF fail THEN "createIfNotExists failed" ELSE created.error
       IN IF ~adapter._autoCreateContainer
          THEN /\ calls' = [calls EXCEPT ![i].pc = next]
               /\ UNCHANGED containers
          ELSE /\ calls' = [calls EXCEPT ![i] =
                    [(IF error # NoError THEN Rejected(c, "createIfNotExists", error)
                      ELSE Awaited(c, "createIfNotExists", next))
                     EXCEPT !.access = PublicAccessLevel(adapter),
                            !.existed = c.containerName \in containers]]
               /\ containers' = IF fail THEN containers ELSE created.containers
    /\ UNCHANGED <<options, env, adapter, blobs, etags, clock, uuids>>

\* lines 156-167: blockBlobClient.uploadStream(file.stream, ..., {metadata, blobHTTPHeaders})
UploadStream(i, fail) ==
    /\ Running(i, "uploadStream")
    /\ LET c == calls[i]
           key == BlobKey(c.containerName, c.blobName)
           uploadOptions == [metadata |-> MetadataOrUndefined(c.metadata),
                             blobHTTPHeaders |-> BlobHTTPHeaders(c.contentSettings)]
           blob == [etag |-> etags + 1, metadata |-> uploadOptions.metadata,
                    blobHTTPHeaders |-> uploadOptions.blobHTTPHeaders,
                    blobType |-> "BlockBlob", contentLength |-> c.file.size]
           sent == [c EXCEPT !.uploadOptions = uploadOptions]
       IN IF fail
          THEN /\ calls' = [calls EXCEPT ![i] =
                    Rejected(sent, "uploadStream", "uploadStream failed")]
               /\ UNCHANGED <<blobs, etags, uuids>>
          ELSE /\ calls' = [calls EXCEPT ![i] =
                    [Awaited(sent, "uploadStream", "getProperties") EXCEPT
                       !.uploaded = etags + 1]]
               /\ blobs' = uploadStream(key, blob)
               /\ etags' = etags + 1
    /\ UNCHANGED <<options, env, adapter, containers, clock, uuids>>

\* line 169: blockBlobClient.getProperties(); it fails when the blob is gone
GetProperties(i, fail) ==
    /\ Running(i, "getProperties")
    /\ LET c == calls[i]
           key == BlobKey(c.containerName, c.blobName)
       IN calls' = [calls EXCEPT ![i] =
            IF fail THEN Rejected(c, "getProperties", "getProperties failed")
            ELSE IF ~Exists(key) THEN Rejected(c, "getProperties", "BlobNotFound")
            ELSE [Awaited(c, "getProperties", "generateSasUrl") EXCEPT
                    !.blobProperties = getProperties(key)]]
    /\ UNCHANGED <<options, env, adapter, containers, blobs, etags, clock, uuids>>

\* lines 170-183: blockBlobClient.generateSasUrl({expiresOn, permissions}), with
\* Date.now() moved on to `now`, then the output file
GenerateSasUrl(i, now, fail) ==
    /\ Running(i, "generateSasUrl")
    /\ now >= clock
    /\ LET c == calls[i]
           sasOptions == [expiresOn |-> ExpiresOn(adapter, now), permissions |-> "r",
                          now |-> now]
           sasUrl == [container |-> c.containerName, blob |-> c.blobName,
                      se |-> sasOptions.expiresOn, sp |-> sasOptions.permissions]
           sent == [c EXCEPT !.sasOptions = sasOptions]
       IN calls' = [calls EXCEPT ![i] =
            IF fail THEN Rejected(sent, "generateSasUrl", "generateSasUrl failed")
            ELSE [Awaited(sent, "generateSasUrl", "fulfilled") EXCEPT
                    !.result = <<OutFile(c, sasUrl)>>]]
    /\ clock' = now
    /\ UNCHANGED <<options, env, adapter, containers, blobs, etags, uuids>>

\* lines 190-191: blockBlobClient.deleteIfExists()
DeleteIfExists(i, fail) ==
    /\ Running(i, "deleteIfExists")
    /\ LET c == calls[i]
           key == BlobKey(c.containerName, c.blobName)
           deleted == deleteIfExists(key)
           error == IF fail THEN "deleteIfExists failed" ELSE deleted.error
           after == IF error # NoError THEN blobs ELSE deleted.blobs
           sent == [c EXCEPT !.found = Exists(key), !.changed = after # blobs]
       IN /\ calls' = [calls EXCEPT ![i] =
                IF error # NoError THEN Rejected(sent, "deleteIfExists", error)
                ELSE Awaited(sent, "deleteIfExists", "fulfilled")]
          /\ blobs' = after
    /\ UNCHANGED <<options, env, adapter, containers, etags, clock, uuids>>

\* lines 136, 140: .then(file => cb(null, file)) / .then(() => cb(null)); when
\* cb throws, the promise .then returns rejects with what cb threw
Then(i, throws) ==
    /\ Running(i, "fulfilled")
    /\ LET c == calls[i]
           called == [c EXCEPT !.cb = Append(@, [error |-> NoError, info |-> c.result])]
       IN calls' = [calls EXCEPT ![i] =
            IF throws THEN [called EXCEPT !.pc = "rejected", !.reason = "thrown by cb"]
            ELSE [called EXCEPT !.pc = "done"]]
    /\ UNCHANGED <<options, env, adapter, containers, blobs, etags, clock, uuids>>

\* lines 136, 140: .catch(err => cb(err)), on a rejection of the async
\* function or of the .then handler
Catch(i) ==
    /\ Running(i, "rejected")
    /\ calls' = [calls EXCEPT ![i] =
            [@ EXCEPT !.pc = "done",
                      !.cb = Append(@, [error |-> calls[i].reason, info |-> <<>>])]]
    /\ UNCHANGED <<options, env, adapter, containers, blobs, etags, clock, uuids>>

Step(max) ==
    \/ Construct
    \/ \E file \in Files : HandleFile(file, max)
    \/ \E file \in Files : RemoveFile(file, max)
    \/ \E i \in 1..Len(calls), fail \in BOOLEAN : ResolveContainerName(i, fail)
    \/ \E i \in 1..Len(calls), now \in 0..MaxClock, fail \in BOOLEAN :
            ResolveBlobName(i, now, fail)
    \/ \E i \in 1..Len(calls), fail \in BOOLEAN : ResolveContentSettings(i, fail)
    \/ \E i \in 1..Len(calls), fail \in BOOLEAN : ResolveMetadata(i, fail)
    \/ \E i \in 1..Len(calls), fail \in BOOLEAN : GetContainerClient(i, fail)
    \/ \E i \in 1..Len(calls), fail \in BOOLEAN : UploadStream(i, fail)
    \/ \E i \in 1..Len(calls), fail \in BOOLEAN : GetProperties(i, fail)
    \/ \E i \in 1..Len(calls), now \in 0..MaxClock, fail \in BOOLEAN :
            GenerateSasUrl(i, now, fail)
    \/ \E i \in 1..Len(calls), fail \in BOOLEAN : DeleteIfExists(i, fail)
    \/ \E i \in 1..Len(calls), throws \in BOOLEAN : Then(i, throws)
    \/ \E i \in 1..Len(calls) : Catch(i)

\* concurrent calls, with and without resolvers
Next == Step(MaxConcurrentCalls)

Spec == Init /\ [][Next]_vars

\* the constructor alone, over every way of supplying the credentials
InitConstructor == Start(CredentialOptions, Environments, {EmptyService})

NextConstructor == Construct

SpecConstructor == InitConstructor /\ [][NextConstructor]_vars

\* calls under every source of container name, metadata and content settings
InitResolvers == Start(ResolverOptions, {NoEnvironment}, {EmptyService})

NextCalls == Step(MaxCalls)

SpecResolvers == InitResolvers /\ [][NextCalls]_vars

\* calls under every urlExpirationTime
InitExpiration == Start(ExpirationOptions, {NoEnvironment}, {EmptyService})

SpecExpiration == InitExpiration /\ [][NextCalls]_vars

\* calls under every autoCreateContainer and containerAccessLevel, on a
\* service with and without the container
InitContainers == Start(ContainerOptions, {NoEnvironment}, {EmptyService, UsedService})

SpecContainers == InitContainers /\ [][NextCalls]_vars

\* calls on a service with and without a stored blob
InitRemove == Start(RemoveOptions, {NoEnvironment}, {EmptyService, UsedService})

SpecRemove == InitRemove /\ [][NextCalls]_vars

----------------------------------------------------------------------------
(* Properties *)

CallIds == 1..Len(calls)

Awaits(c, op) == \E k \in 1..Len(c.requests) : c.requests[k] = op

\* the call's async function rejected at its await of `op`
FailedAt(c, op) ==
    c.failure # NoError /\ c.requests # <<>> /\ c.requests[Len(c.requests)] = op

\* C1: a remove call that follows a successful store call of the same file
\* resolves the container name and the blob name that the store call
\* resolved, whatever the configuration
C1_RemoveResolvesWhatStoreResolved ==
    \A s \in CallIds, r \in CallIds :
        (/\ calls[s].kind = "store" /\ calls[r].kind = "remove"
         /\ s \in calls[r].follows
         /\ calls[s].cb = <<[error |-> NoError, info |-> calls[s].result]>>
         /\ calls[s].file = calls[r].file
         /\ Awaits(calls[r], "blobName") /\ calls[r].failure # "blobName rejected")
        => /\ calls[r].containerName = calls[s].containerName
           /\ calls[r].blobName = calls[s].blobName

\* a value is obtained from an option or its environment fallback when
\* either holds a non-empty string
Obtained(option, fallback) ==
    (option # Undefined /\ option # "") \/ (fallback # Undefined /\ fallback # "")

NoCredentials ==
    /\ ~Obtained(options.connectionString, env.AZURE_STORAGE_CONNECTION_STRING)
    /\ ~(/\ Obtained(options.accountName, env.AZURE_STORAGE_ACCOUNT)
         /\ Obtained(options.accessKey, env.AZURE_STORAGE_ACCESS_KEY))

NoContainerNameSource ==
    options.containerName \in {Missing(Undefined), Static("")}

\* C2: the constructor throws if and only if no credentials can be obtained
\* (neither a connection string nor both an account name and an access key,
\* from the options or the environment) or no container name is supplied
C2_ConstructorThrowsIff ==
    adapter.state # "new" =>
        /\ adapter.state = "threw" <=> (NoCredentials \/ NoContainerNameSource)
        /\ adapter.state = "threw" <=> adapter.error # NoError
        /\ adapter.state = "constructed" <=> ~(NoCredentials \/ NoContainerNameSource)

\* the constructor threw for the container name alone, the credentials coming
\* from the environment
C2_Witness ==
    /\ adapter.state = "threw"
    /\ adapter.error = MissingContainerName
    /\ options.connectionString = Undefined
    /\ options.accountName = Undefined
    /\ options.accessKey = ""
    /\ env.AZURE_STORAGE_CONNECTION_STRING = ""

Duplicates(seq) == \E j \in 1..Len(seq), k \in 1..Len(seq) : j < k /\ seq[j] = seq[k]

\* C3: when an awaited step of a call fails, nothing more is awaited, no
\* output file is produced, and the callback is invoked with that very error
\* and no second argument; no step is awaited twice
C3_FailurePropagates ==
    \A i \in CallIds :
        LET c == calls[i] IN
        /\ ~Duplicates(c.requests)
        /\ c.failure # NoError =>
            /\ c.pc \in {"rejected", "done"}
            /\ c.result = <<>>
            /\ c.pc = "rejected" => c.cb = <<>> /\ c.reason = c.failure
            /\ c.pc = "done" => c.cb = <<[error |-> c.failure, info |-> <<>>]>>

\* a store call whose upload failed has delivered the upload's error
C3_Witness ==
    \E i \in CallIds :
        /\ calls[i].kind = "store" /\ calls[i].pc = "done"
        /\ calls[i].failure = "uploadStream failed"
        /\ calls[i].requests[Len(calls[i].requests)] = "uploadStream"
        /\ calls[i].cb = <<[error |-> "uploadStream failed", info |-> <<>>]>>

\* C4: a remove call whose delete request got through and found no blob
\* fails at no step, leaves the stored blobs as they were, and invokes its
\* callback with a null error
C4_RemoveOfMissingBlob ==
    \A i \in CallIds :
        LET c == calls[i] IN
        (/\ c.kind = "remove" /\ Awaits(c, "deleteIfExists")
         /\ c.failure # "deleteIfExists failed"
         /\ ~c.found)
        => /\ c.failure = NoError
           /\ ~c.changed
           /\ c.pc # "fulfilled" => c.cb # <<>> /\ c.cb[1] = [error |-> NoError, info |-> <<>>]

\* a remove call found no blob while another blob was stored, and completed
C4_Witness ==
    \E i \in CallIds :
        /\ calls[i].kind = "remove" /\ calls[i].pc = "done"
        /\ Awaits(calls[i], "deleteIfExists") /\ ~calls[i].found
        /\ calls[i].cb = <<[error |-> NoError, info |-> <<>>]>>
        /\ EarlierKey \in DOMAIN blobs

\* the expiry the urlExpirationTime option asks for, at time `now`
ExpectedExpiry(option, now) ==
    IF option.t = "false" THEN NoNumber
    ELSE IF option.t = "undefined" \/ option.n <= 0 THEN Num(now + 60 * 60000)
    ELSE Num(now + option.n * 60000)

\* C5: the expiresOn passed to generateSasUrl is none when urlExpirationTime
\* is false, now + 60 minutes when it is unset or <= 0, now + N minutes when
\* it is a positive N
C5_ExpiryFollowsOption ==
    \A i \in CallIds :
        calls[i].sasOptions.permissions # Undefined =>
            calls[i].sasOptions.expiresOn =
                ExpectedExpiry(options.urlExpirationTime, calls[i].sasOptions.now)

\* a store call signed its URL at time 1 under urlExpirationTime 2
C5_Witness ==
    \E i \in CallIds :
        /\ calls[i].pc = "done" /\ calls[i].failure = NoError
        /\ options.urlExpirationTime = Num(2)
        /\ calls[i].sasOptions.now = 1
        /\ calls[i].sasOptions.expiresOn = Num(120001)
        /\ calls[i].result[1].url.se = Num(120001)

AutoCreateEnabled == options.autoCreateContainer \in {Undefined, "true"}

ConfiguredLevel ==
    IF options.containerAccessLevel = Undefined THEN "private"
    ELSE options.containerAccessLevel

\* the call has got past _getContainerClient
HasContainerClient(c) ==
    \/ c.pc \in {"uploadStream", "deleteIfExists", "getProperties", "generateSasUrl", "fulfilled"}
    \/ Awaits(c, "uploadStream") \/ Awaits(c, "deleteIfExists")

\* C6: a call requests the container's creation exactly when auto-create is
\* enabled; the request carries no access level when the configured level is
\* private and the configured level otherwise; and it does not fail on a
\* container that exists
C6_ContainerCreation ==
    \A i \in CallIds :
        LET c == calls[i] IN
        /\ Awaits(c, "createIfNotExists") => AutoCreateEnabled
        /\ (HasContainerClient(c) /\ AutoCreateEnabled) => Awaits(c, "createIfNotExists")
        /\ Awaits(c, "createIfNotExists") =>
            c.access = (IF ConfiguredLevel = "private" THEN Undefined ELSE ConfiguredLevel)
        /\ (FailedAt(c, "createIfNotExists") /\ c.existed) =>
            c.failure = "createIfNotExists failed"

\* a call requested, with no access level, the creation of a container that
\* existed, and completed
C6_Witness ==
    \E i \in CallIds :
        /\ calls[i].pc = "done" /\ calls[i].failure = NoError
        /\ Awaits(calls[i], "createIfNotExists")
        /\ calls[i].existed
        /\ options.containerAccessLevel = "private"
        /\ calls[i].access = Undefined

\* C7: with no contentSettings option, the upload's headers are the file's
\* MIME type as content type, "inline" as content disposition, nothing else
C7_DefaultHeaders ==
    \A i \in CallIds :
        (Awaits(calls[i], "uploadStream") /\ options.contentSettings.kind = "undefined") =>
            calls[i].uploadOptions.blobHTTPHeaders =
                [blobCacheControl |-> Undefined,
                 blobContentType |-> calls[i].file.mimetype,
                 blobContentMD5 |-> Undefined,
                 blobContentEncoding |-> Undefined,
                 blobContentLanguage |-> Undefined,
                 blobContentDisposition |-> "inline"]

\* a store call with no contentSettings option uploaded a text/plain file
C7_Witness ==
    \E i \in CallIds :
        /\ options.contentSettings.kind = "undefined"
        /\ calls[i].pc = "done" /\ calls[i].failure = NoError
        /\ calls[i].uploaded > 0
        /\ calls[i].uploadOptions.blobHTTPHeaders.blobContentType = "text/plain"

\* C8: with no metadata option, the upload is passed no metadata object
C8_NoMetadataObject ==
    \A i \in CallIds :
        (Awaits(calls[i], "uploadStream") /\ options.metadata.kind = "undefined") =>
            ~calls[i].uploadOptions.metadata.present

\* a store call with no metadata option uploaded its file
C8_Witness ==
    \E i \in CallIds :
        /\ options.metadata.kind = "undefined"
        /\ calls[i].pc = "done" /\ calls[i].failure = NoError
        /\ calls[i].uploaded > 0
        /\ calls[i].uploadOptions.metadata = NoMetadata

\* C9: a call invokes its completion callback at most once, and exactly once
\* by the time it is over
C9_CallbackExactlyOnce ==
    \A i \in CallIds :
        /\ Len(calls[i].cb) <= 1
        /\ calls[i].pc = "done" => Len(calls[i].cb) = 1

\* C10: the output file of a store call carries the etag, the size and the
\* metadata of the blob that call uploaded
C10_OutputIsOwnUpload ==
    \A i \in CallIds :
        (calls[i].kind = "store" /\ calls[i].result # <<>>) =>
            /\ calls[i].result[1].etag = calls[i].uploaded
            /\ calls[i].result[1].blobSize = calls[i].file.size
            /\ calls[i].result[1].metadata = calls[i].uploadOptions.metadata

====
